---------------------------- MODULE Spec2Model ----------------------------
(***************************************************************************)
(* Model of the Curve pool analyser:                                       *)
(*   src/curve_analyzer.py      resolve_pool_from_input, get_pool_meta,     *)
(*                              fetch_event_logs_adaptive,                  *)
(*                              fetch_token_exchange_raw,                   *)
(*                              analyze_swaps_last_days, block_at_timestamp *)
(*   src/analysis_curve_pool.py fetch_event_logs, fetch_raw_logs,           *)
(*                              block_at_timestamp, handle_swap, the        *)
(*                              asset-role heuristic                        *)
(* A fetcher is a Python generator; one behaviour of Spec is one call of   *)
(* one fetcher whose consumer pulls every entry.  The node (get_logs) is   *)
(* the environment: it answers each query with the logs of the window, a   *)
(* capacity error or another error.                                        *)
(*   Spec, FairSpec        one call of one of the four fetchers            *)
(*   SpecCallback          one call of an adaptive fetcher whose           *)
(*                         progress_cb can raise                           *)
(*   SpecAnalyze           one call of analyze_swaps_last_days             *)
(*   SpecLocate,                                                           *)
(*   FairSpecLocate        one call of block_at_timestamp                  *)
(*   SpecResolve           one call of resolve_pool_from_input             *)
(*   SpecRoles             the asset-role heuristic, both implementations  *)
(*   SpecFlows             one event through both swap handlers            *)
(***************************************************************************)
EXTENDS Integers, Sequences, FiniteSets, TLC

VARIABLES
    fetcher,      \* which generator function is running
    from_block,   \* parameter from_block
    to_block,     \* parameter to_block
    max_pages,    \* parameter max_pages (adaptive fetchers only)
    step,         \* local step (starts as the parameter)
    start,        \* local start
    end,          \* local end
    retries,      \* local retries (adaptive fetchers only)
    pages,        \* local pages (adaptive fetchers only)
    logs,         \* entries of the current query result not yet yielded
    pc,           \* position of the generator
    backend,      \* behaviour of the node: "any", "ok", "limit" or "flaky"
    W,            \* widest window a "limit" node accepts
    chain,        \* the matching logs on chain, in block order
    yielded,      \* history: entries handed to the consumer, in order
    progress,     \* history: values passed to progress_cb
    okWindows,    \* history: <<start, end>> of every successful query
    skipped,      \* history: <<start, end>> of every window advanced past
    queries,      \* history: number of get_logs calls issued
    winQueries,   \* history: get_logs calls issued for the current sub-window
    winOthers,    \* history: errors other than capacity errors on that sub-window
    lastOutcome,  \* history: outcome of the latest get_logs call
    caller,       \* "direct" (a plain consumer) or "analyze"
    anPc,         \* position of analyze_swaps_last_days
    swaps,        \* analyze_swaps_last_days: the list swaps
    structuredQuirk, \* the node's structured filter silently returns nothing
    anHist,       \* history of one analyze_swaps_last_days call
    impl,         \* block_at_timestamp: which of the two implementations
    lower,        \* block_at_timestamp: start hint
    upper,        \* block_at_timestamp: chain head / end
    target,       \* block_at_timestamp: ts
    oracle,       \* block_at_timestamp: timestamp of every block
    lo,           \* block_at_timestamp: local lo
    hi,           \* block_at_timestamp: local hi
    bsPc,         \* block_at_timestamp: position
    probes,       \* history: blocks whose timestamp was fetched
    cbRaises,     \* the caller's progress_cb can raise
    expired,      \* analyze_swaps_last_days: time.time() - start_time > timeout_s
    ui,           \* resolve_pool_from_input: the input after strip / URL parse
    node,         \* resolve_pool_from_input: what the chain answers
    rsPc,         \* resolve_pool_from_input: position
    rsCalls,      \* history: the node calls made by the resolver, in order
    rsResult,     \* resolve_pool_from_input: returned address or raised error
    sym0,         \* asset-role heuristic: symbol of coin 0 (characters)
    sym1,         \* asset-role heuristic: symbol of coin 1 (characters)
    roles,        \* asset-role heuristic: the pair of each implementation
    rolePc,       \* asset-role heuristic: position
    ev,           \* a TokenExchange event: ids and raw amounts
    meta,         \* the PoolMeta of the pool (decimals, deusd_index, frx_index)
    rec,          \* the record analyze_swaps_last_days appends for ev
    legacy,       \* the record handle_swap appends for ev
    flowPc,       \* position of the two swap handlers
    cache,        \* _blk_ts_cache restricted to the tracked blocks
    cacheOthers,  \* number of entries of _blk_ts_cache for other blocks
    nodeSaid,     \* history: the timestamp the node last returned per block
    lastCall      \* history: the latest get_block_ts call

fetchVars == <<fetcher, from_block, to_block, max_pages, step, start, end,
               retries, pages, logs, pc, backend, W, chain, yielded, progress,
               okWindows, skipped, queries, winQueries, winOthers,
               lastOutcome>>
anVars == <<caller, anPc, swaps, structuredQuirk, anHist>>
bsVars == <<impl, lower, upper, target, oracle, lo, hi, bsPc, probes>>
envVars == <<cbRaises, expired>>
rsVars == <<ui, node, rsPc, rsCalls, rsResult>>
roleVars == <<sym0, sym1, roles, rolePc>>
flowVars == <<ev, meta, rec, legacy, flowPc>>
cacheVars == <<cache, cacheOthers, nodeSaid, lastCall>>
sideVars == <<envVars, rsVars, roleVars, flowVars, cacheVars>>
vars == <<fetchVars, anVars, bsVars, sideVars>>

---------------------------------------------------------------------------
(* Bounds of the model. *)

\* widest block range of the small calls
MaxRange == 4
\* the history counter queries stops counting here (fetch_raw_logs can query forever)
MaxQueries == 40
\* widest window limit of the small "limit" nodes
MaxW == 2

\* first block of the small calls
FromBlocks == {3}
\* initial steps of the small calls (1000 is the default of all four fetchers)
StepValues == {1, 2, 3, 1000}
\* max_pages values of the small calls (20000 is the default)
MaxPagesValues == {1, 2, 20000}

---------------------------------------------------------------------------
(* Helpers. *)

Min2(a, b) == IF a <= b THEN a ELSE b
Max2(a, b) == IF a >= b THEN a ELSE b

AdaptiveFetchers == {"fetch_event_logs_adaptive", "fetch_token_exchange_raw"}
FailFastFetchers == {"fetch_event_logs", "fetch_raw_logs"}
Fetchers == AdaptiveFetchers \cup FailFastFetchers

\* the log entry of one block
LogAt(b, kind) ==
    IF kind = "none" THEN <<>> ELSE <<[blockNumber |-> b, kind |-> kind]>>

\* one log entry per listed block
LogsOn(blocks, kind) ==
    LET RECURSIVE Build(_)
        Build(b) == IF b > to_block THEN <<>>
                    ELSE (IF b \in blocks
                          THEN <<[blockNumber |-> b, kind |-> kind]>>
                          ELSE <<>>) \o Build(b + 1)
    IN Build(from_block)

\* get_logs(from_block=s, to_block=e) on a node that answers: the matching
\* logs of blocks s..e in block order
GetLogs(s, e) ==
    SelectSeq(chain, LAMBDA l : s <= l.blockNumber /\ l.blockNumber <= e)

\* what a successful query of s..e returns: event.get_logs of a node whose
\* structured filter is broken returns nothing, w3.eth.get_logs with the
\* topic always returns the logs
Answer(s, e) ==
    IF structuredQuirk /\ fetcher = "fetch_event_logs_adaptive"
    THEN <<>>
    ELSE GetLogs(s, e)

\* end = min(start + step - 1, to_block)
WindowEnd(s, st) == Min2(s + st - 1, to_block)

\* faulty variant: the window start is set to end, not past it
NextStartStuck(e) == e

\* start = end + 1
NextStart(e) == e + 1

\* total = max(1, to_block - from_block + 1)
Total == Max2(1, to_block - from_block + 1)

\* faulty variant: the fraction without the + 1
ProgressValueOffByOne(e) ==
    [num |-> Min2(Total, e - from_block), den |-> Total]

\* faulty variant: the fraction of the range still to fetch
ProgressValueRemaining(e) ==
    [num |-> Min2(Total, to_block - e), den |-> Total]

\* min(1.0, (end - from_block + 1) / total) as the fraction num / den
ProgressValue(e) ==
    [num |-> Min2(Total, e - from_block + 1), den |-> Total]

\* faulty variant: the halving without its floor of 1
HalveStepNoFloor(st) == st \div 2

\* step = max(1, step // 2)   (operands are never negative)
HalveStep(st) == Max2(1, st \div 2)

\* faulty variant: the ladder ends at 10
LadderStepShort(st) ==
    IF st > 200 THEN st \div 2
    ELSE IF st > 50 THEN 50
    ELSE IF st > 10 THEN 10
    ELSE 0

\* the step ladder of fetch_event_logs; 0 stands for "give up on this block"
LadderStep(st) ==
    IF st > 200 THEN st \div 2
    ELSE IF st > 50 THEN 50
    ELSE IF st > 10 THEN 10
    ELSE IF st > 1 THEN 1
    ELSE 0

\* retries >= 5 after a capacity error: skip the window
CapacityRetryLimit == 5
\* retries >= 2 after another error: skip the window
OtherRetryLimit == 2

\* what the node may answer to a query of window s..e: an "ok" node never
\* fails, a "limit" node refuses the windows wider than W, a "flaky" node
\* fails with errors that are not capacity errors, an "any" node does
\* whatever it likes
MayAnswer(s, e) ==
    CASE backend = "ok"    -> {"ok"}
      [] backend = "limit" -> IF e - s + 1 > W THEN {"capacity"} ELSE {"ok"}
      [] backend = "flaky" -> {"ok", "other"}
      [] OTHER             -> {"ok", "capacity", "other"}

CountQuery(q) == Min2(q + 1, MaxQueries)

---------------------------------------------------------------------------
(* The four fetchers. *)

\* `while start <= to_block:` entered; end and (adaptive) retries are set
LoopEnter ==
    /\ UNCHANGED bsVars
    /\ UNCHANGED sideVars
    /\ UNCHANGED anVars
    /\ pc = "loop"
    /\ start <= to_block
    /\ end' = WindowEnd(start, step)
    /\ retries' = 0
    /\ winQueries' = 0
    /\ winOthers' = 0
    /\ pc' = "query"
    /\ UNCHANGED <<fetcher, from_block, to_block, max_pages, step, start,
                   pages, logs, backend, W, chain, yielded, progress,
                   okWindows, skipped, queries, lastOutcome>>

\* `while start <= to_block:` fails: the generator returns
LoopExit ==
    /\ UNCHANGED bsVars
    /\ UNCHANGED sideVars
    /\ UNCHANGED anVars
    /\ pc = "loop"
    /\ start > to_block
    /\ pc' = "done"
    /\ UNCHANGED <<fetcher, from_block, to_block, max_pages, step, start, end,
                   retries, pages, logs, backend, W, chain, yielded, progress,
                   okWindows, skipped, queries, winQueries, winOthers,
                   lastOutcome>>

\* get_logs returns: the generator starts `for l in logs: yield l`
QueryOk ==
    /\ UNCHANGED bsVars
    /\ UNCHANGED sideVars
    /\ UNCHANGED anVars
    /\ pc = "query"
    /\ "ok" \in MayAnswer(start, end)
    /\ logs' = Answer(start, end)
    /\ queries' = CountQuery(queries)
    /\ winQueries' = winQueries + 1
    /\ UNCHANGED winOthers
    /\ lastOutcome' = "ok"
    /\ okWindows' = Append(okWindows, <<start, end>>)
    /\ pc' = "yield"
    /\ UNCHANGED <<fetcher, from_block, to_block, max_pages, step, start, end,
                   retries, pages, backend, W, chain, yielded, progress,
                   skipped>>

\* `if pages >= max_pages: break` at the end of an adaptive iteration
AfterIteration(p) == IF p >= max_pages THEN "done" ELSE "loop"

\* all entries yielded: progress_cb, start = end + 1, pages += 1
AdaptiveComplete ==
    /\ UNCHANGED bsVars
    /\ UNCHANGED sideVars
    /\ UNCHANGED anVars
    /\ fetcher \in AdaptiveFetchers
    /\ pc = "yield"
    /\ logs = <<>>
    /\ progress' = Append(progress, ProgressValue(end))
    /\ start' = NextStart(end)
    /\ pages' = pages + 1
    /\ pc' = AfterIteration(pages + 1)
    /\ UNCHANGED <<fetcher, from_block, to_block, max_pages, step, end,
                   retries, logs, backend, W, chain, yielded, okWindows,
                   skipped, queries, winQueries, winOthers,
                   lastOutcome>>

\* get_logs raises an error whose text has 'range' or 'limit'
AdaptiveCapacityError ==
    /\ UNCHANGED bsVars
    /\ UNCHANGED sideVars
    /\ UNCHANGED anVars
    /\ fetcher \in AdaptiveFetchers
    /\ pc = "query"
    /\ "capacity" \in MayAnswer(start, end)
    /\ queries' = CountQuery(queries)
    /\ winQueries' = winQueries + 1
    /\ UNCHANGED winOthers
    /\ lastOutcome' = "capacity"
    /\ retries' = retries + 1
    /\ IF retries + 1 >= CapacityRetryLimit
       THEN /\ start' = NextStart(end)
            /\ skipped' = Append(skipped, <<start, end>>)
            /\ pc' = AfterIteration(pages)
            /\ UNCHANGED <<step, end>>
       ELSE /\ step' = HalveStep(step)
            /\ end' = WindowEnd(start, HalveStep(step))
            /\ pc' = "query"
            /\ UNCHANGED <<start, skipped>>
    /\ UNCHANGED <<fetcher, from_block, to_block, max_pages, pages, logs,
                   backend, W, chain, yielded, progress, okWindows>>

\* get_logs raises any other error
AdaptiveOtherError ==
    /\ UNCHANGED bsVars
    /\ UNCHANGED sideVars
    /\ UNCHANGED anVars
    /\ fetcher \in AdaptiveFetchers
    /\ pc = "query"
    /\ "other" \in MayAnswer(start, end)
    /\ queries' = CountQuery(queries)
    /\ winQueries' = winQueries + 1
    /\ winOthers' = winOthers + 1
    /\ lastOutcome' = "other"
    /\ retries' = retries + 1
    /\ IF retries + 1 >= OtherRetryLimit
       THEN /\ start' = NextStart(end)
            /\ skipped' = Append(skipped, <<start, end>>)
            /\ pc' = AfterIteration(pages)
       ELSE /\ pc' = "query"
            /\ UNCHANGED <<start, skipped>>
    /\ UNCHANGED <<fetcher, from_block, to_block, max_pages, step, end, pages,
                   logs, backend, W, chain, yielded, progress, okWindows>>

\* all entries yielded, progress_cb is called and raises: the call sits in
\* the try block, so the except branch runs with the callback's error, a
\* capacity error when its text has 'range' or 'limit', another error
\* otherwise; start and pages are not yet updated
AdaptiveProgressRaises ==
    /\ UNCHANGED bsVars
    /\ UNCHANGED sideVars
    /\ UNCHANGED anVars
    /\ fetcher \in AdaptiveFetchers
    /\ pc = "yield"
    /\ logs = <<>>
    /\ cbRaises
    /\ progress' = Append(progress, ProgressValue(end))
    /\ retries' = retries + 1
    /\ \E text \in {"capacity", "other"} :
          IF text = "capacity"
          THEN IF retries + 1 >= CapacityRetryLimit
               THEN /\ start' = NextStart(end)
                    /\ pc' = AfterIteration(pages)
                    /\ UNCHANGED <<step, end>>
               ELSE /\ step' = HalveStep(step)
                    /\ end' = WindowEnd(start, HalveStep(step))
                    /\ pc' = "query"
                    /\ UNCHANGED start
          ELSE IF retries + 1 >= OtherRetryLimit
               THEN /\ start' = NextStart(end)
                    /\ pc' = AfterIteration(pages)
                    /\ UNCHANGED <<step, end>>
               ELSE /\ pc' = "query"
                    /\ UNCHANGED <<step, start, end>>
    /\ UNCHANGED <<fetcher, from_block, to_block, max_pages, pages, logs,
                   backend, W, chain, yielded, okWindows, skipped, queries,
                   winQueries, winOthers, lastOutcome>>

\* fetch_event_logs / fetch_raw_logs: all entries yielded, start = end + 1
FailFastComplete ==
    /\ UNCHANGED bsVars
    /\ UNCHANGED sideVars
    /\ UNCHANGED anVars
    /\ fetcher \in FailFastFetchers
    /\ pc = "yield"
    /\ logs = <<>>
    /\ start' = NextStart(end)
    /\ pc' = "loop"
    /\ UNCHANGED <<fetcher, from_block, to_block, max_pages, step, end,
                   retries, pages, logs, backend, W, chain, yielded, progress,
                   okWindows, skipped, queries, winQueries, winOthers,
                   lastOutcome>>

\* fetch_event_logs: a capacity error walks the step ladder, then gives up
\* on the block
EventLogsCapacityError ==
    /\ UNCHANGED bsVars
    /\ UNCHANGED sideVars
    /\ UNCHANGED anVars
    /\ fetcher = "fetch_event_logs"
    /\ pc = "query"
    /\ "capacity" \in MayAnswer(start, end)
    /\ queries' = CountQuery(queries)
    /\ winQueries' = winQueries + 1
    /\ UNCHANGED winOthers
    /\ lastOutcome' = "capacity"
    /\ IF LadderStep(step) # 0
       THEN /\ step' = LadderStep(step)
            /\ UNCHANGED <<start, skipped>>
       ELSE /\ start' = NextStart(end)
            /\ skipped' = Append(skipped, <<start, end>>)
            /\ UNCHANGED step
    /\ pc' = "loop"
    /\ UNCHANGED <<fetcher, from_block, to_block, max_pages, end, retries,
                   pages, logs, backend, W, chain, yielded, progress,
                   okWindows>>

\* fetch_raw_logs: a capacity error halves the step, nothing else
RawLogsCapacityError ==
    /\ UNCHANGED bsVars
    /\ UNCHANGED sideVars
    /\ UNCHANGED anVars
    /\ fetcher = "fetch_raw_logs"
    /\ pc = "query"
    /\ "capacity" \in MayAnswer(start, end)
    /\ queries' = CountQuery(queries)
    /\ winQueries' = winQueries + 1
    /\ UNCHANGED winOthers
    /\ lastOutcome' = "capacity"
    /\ step' = HalveStep(step)
    /\ pc' = "loop"
    /\ UNCHANGED <<fetcher, from_block, to_block, max_pages, start, end,
                   retries, pages, logs, backend, W, chain, yielded, progress,
                   okWindows, skipped>>

\* faulty variant: the window is skipped instead
FailFastOnOtherSkip == "skip"

\* what fetch_event_logs / fetch_raw_logs do with an error that is not a
\* capacity error: `raise`
FailFastOnOther == "raised"

FailFastOtherError ==
    /\ UNCHANGED bsVars
    /\ UNCHANGED sideVars
    /\ UNCHANGED anVars
    /\ fetcher \in FailFastFetchers
    /\ pc = "query"
    /\ "other" \in MayAnswer(start, end)
    /\ queries' = CountQuery(queries)
    /\ winQueries' = winQueries + 1
    /\ winOthers' = winOthers + 1
    /\ lastOutcome' = "other"
    /\ IF FailFastOnOther = "raised"
       THEN /\ pc' = "raised"
            /\ UNCHANGED <<start, skipped>>
       ELSE /\ pc' = "loop"
            /\ start' = NextStart(end)
            /\ skipped' = Append(skipped, <<start, end>>)
    /\ UNCHANGED <<fetcher, from_block, to_block, max_pages, step, end,
                   retries, pages, logs, backend, W, chain, yielded, progress,
                   okWindows>>

\* `yield l`: a plain consumer takes the next entry
Yield ==
    /\ UNCHANGED bsVars
    /\ UNCHANGED sideVars
    /\ UNCHANGED anVars
    /\ caller = "direct"
    /\ pc = "yield"
    /\ logs # <<>>
    /\ yielded' = Append(yielded, Head(logs))
    /\ logs' = Tail(logs)
    /\ UNCHANGED <<fetcher, from_block, to_block, max_pages, step, start, end,
                   retries, pages, pc, backend, W, chain, progress, okWindows,
                   skipped, queries, winQueries, winOthers,
                   lastOutcome>>

---------------------------------------------------------------------------
(* One call of one fetcher by a plain consumer. *)

\* history of a call of analyze_swaps_last_days:
\*   rawRan     fetch_token_exchange_raw was called
\*   structErr  an error was raised while the structured path was consumed
\*   late       the handling of an event ended after the budget was exceeded
\*   error      what the call raised: "none", "event" or "KeyError"
NoHistory ==
    [rawRan |-> FALSE, structErr |-> FALSE, late |-> FALSE, error |-> "none"]

AnIdle ==
    /\ caller = "direct"
    /\ anPc = "idle"
    /\ swaps = <<>>
    /\ structuredQuirk = FALSE
    /\ anHist = NoHistory

BsIdle ==
    /\ impl = "none"
    /\ lower = 0
    /\ upper = 0
    /\ target = 0
    /\ oracle = <<>>
    /\ lo = 0
    /\ hi = 0
    /\ bsPc = "idle"
    /\ probes = <<>>

\* a progress_cb that returns, a clock within the budget
EnvIdle ==
    /\ cbRaises = FALSE
    /\ expired = FALSE

RsIdle ==
    /\ ui = [has0x |-> FALSE, len |-> 0]
    /\ node = "none"
    /\ rsPc = "idle"
    /\ rsCalls = <<>>
    /\ rsResult = "none"

RoleIdle ==
    /\ sym0 = <<>>
    /\ sym1 = <<>>
    /\ roles = "none"
    /\ rolePc = "idle"

FlowIdle ==
    /\ ev = "none"
    /\ meta = "none"
    /\ rec = "none"
    /\ legacy = "none"
    /\ flowPc = "idle"

\* no get_block_ts call yet: the module-level dict is empty
CacheIdle ==
    /\ cache = <<>>
    /\ cacheOthers = 0
    /\ nodeSaid = <<>>
    /\ lastCall = [kind |-> "none", calls |-> 0, cleared |-> FALSE]

SideIdle ==
    /\ EnvIdle
    /\ RsIdle
    /\ RoleIdle
    /\ FlowIdle
    /\ CacheIdle

\* the local variables and histories at the first statement of a fetcher
FetchStart(f, fb, tb, st, mp) ==
    /\ fetcher = f
    /\ from_block = fb
    /\ to_block = tb
    /\ step = st
    /\ max_pages = mp
    /\ start = fb
    /\ end = fb
    /\ retries = 0
    /\ pages = 0
    /\ logs = <<>>
    /\ pc = "loop"
    /\ yielded = <<>>
    /\ progress = <<>>
    /\ okWindows = <<>>
    /\ skipped = <<>>
    /\ queries = 0
    /\ winQueries = 0
    /\ winOthers = 0
    /\ lastOutcome = "none"

\* the calls with a small range
SmallCall ==
    /\ \E f \in Fetchers, fb \in FromBlocks, st \in StepValues :
         \E tb \in fb .. fb + MaxRange - 1 :
           \E mp \in (IF f \in AdaptiveFetchers THEN MaxPagesValues ELSE {20000}) :
              FetchStart(f, fb, tb, st, mp)
    /\ \/ backend \in {"any", "ok"} /\ W = 0
       \/ backend = "limit" /\ W \in 1 .. MaxW
    /\ chain \in {LogsOn(from_block .. to_block, "s01"),
                  LogsOn({b \in from_block .. to_block : b % 2 = 0}, "s01")}

\* the end-to-end scenario of the specification: range [1000, 1099],
\* step 1000, a node that refuses every window wider than 37 blocks
ScenarioCall ==
    /\ \E f \in Fetchers : FetchStart(f, 1000, 1099, 1000, 20000)
    /\ backend = "limit"
    /\ W = 37
    /\ chain = LogsOn(from_block .. to_block, "s01")

Init ==
    /\ SmallCall \/ ScenarioCall
    /\ AnIdle
    /\ BsIdle
    /\ SideIdle

Next ==
    \/ LoopEnter
    \/ LoopExit
    \/ QueryOk
    \/ Yield
    \/ AdaptiveComplete
    \/ AdaptiveCapacityError
    \/ AdaptiveOtherError
    \/ FailFastComplete
    \/ EventLogsCapacityError
    \/ RawLogsCapacityError
    \/ FailFastOtherError

Spec == Init /\ [][Next]_vars

\* the consumer keeps pulling and the node answers every query
FairSpec == Spec /\ WF_vars(Next)


\* widest block range of the calls with a raising progress_cb
CallbackRange == 2

\* one call of an adaptive fetcher whose progress_cb can raise
InitCallback ==
    /\ SmallCall
    /\ fetcher \in AdaptiveFetchers
    /\ to_block - from_block + 1 <= CallbackRange
    /\ step <= to_block - from_block + 1
    /\ max_pages = 20000
    /\ backend \in {"ok", "any"}
    /\ Len(chain) = to_block - from_block + 1
    /\ AnIdle
    /\ BsIdle
    /\ cbRaises = TRUE
    /\ expired = FALSE
    /\ RsIdle
    /\ RoleIdle
    /\ FlowIdle
    /\ CacheIdle

NextCallback ==
    \/ LoopEnter
    \/ LoopExit
    \/ QueryOk
    \/ Yield
    \/ AdaptiveComplete
    \/ AdaptiveCapacityError
    \/ AdaptiveOtherError
    \/ AdaptiveProgressRaises

SpecCallback == InitCallback /\ [][NextCallback]_vars

---------------------------------------------------------------------------
(* analyze_swaps_last_days: the structured path, then the raw fallback.    *)
(* The consumer of a generator runs while the generator is suspended at    *)
(* `yield`; a consumer that leaves its loop closes the generator.          *)

\* step=500 of both fetcher calls
AnalyzeStep == 500
\* max_pages of both fetcher calls (the default)
AnalyzeMaxPages == 20000

\* the (sold_id, bought_id) pairs that give a swap record
SwapKinds == {"s01", "s10"}
\* s00: both indices equal, the `else: continue` branch
LogKinds == SwapKinds \cup {"s00"}

\* the dict appended to swaps, with the path that decoded it
SwapRecord(l, path) ==
    [blockNumber |-> l.blockNumber, kind |-> l.kind, path |-> path]

\* faulty variant: the raw path is taken whatever the structured path found
NeedsRawAlways(sw) == TRUE

\* `if not swaps:`
NeedsRaw(sw) == sw = <<>>

\* sort_values('time'): block timestamps grow with the block number
RECURSIVE InsertByBlock(_, _)
InsertByBlock(r, seq) ==
    IF seq = <<>> THEN <<r>>
    ELSE IF r.blockNumber < Head(seq).blockNumber THEN <<r>> \o seq
    ELSE <<Head(seq)>> \o InsertByBlock(r, Tail(seq))

RECURSIVE SortByBlock(_)
SortByBlock(seq) ==
    IF seq = <<>> THEN <<>>
    ELSE InsertByBlock(seq[Len(seq)], SortByBlock(SubSeq(seq, 1, Len(seq) - 1)))

\* get_block (behind get_block_ts) can fail on the nodes that fail at all
NodeMayFail == backend \in {"any", "flaky"}

\* the consumer stops pulling: the generator is never resumed
Close == pc' = "closed"

\* `timeout_s and (time.time() - start_time) > timeout_s`, with the
\* default timeout_s = 60.0
TimedOut == expired

\* structured path: an event with indices (0,1) or (1,0) is appended; then
\* the clock is read and the loop is left when timeout_s is exceeded
AnStructuredSwap ==
    /\ UNCHANGED bsVars
    /\ UNCHANGED sideVars
    /\ caller = "analyze" /\ anPc = "structured"
    /\ pc = "yield" /\ logs # <<>>
    /\ Head(logs).kind \in SwapKinds
    /\ swaps' = Append(swaps, SwapRecord(Head(logs), "structured"))
    /\ logs' = Tail(logs)
    /\ yielded' = Append(yielded, Head(logs))
    /\ IF TimedOut THEN Close /\ anPc' = "check"
                   ELSE UNCHANGED <<pc, anPc>>
    /\ anHist' = [anHist EXCEPT !.late = @ \/ expired]
    /\ UNCHANGED <<caller, structuredQuirk>>
    /\ UNCHANGED <<fetcher, from_block, to_block, max_pages, step, start, end,
                   retries, pages, backend, W, chain, progress, okWindows,
                   skipped, queries, winQueries, winOthers,
                   lastOutcome>>

\* structured path: unexpected indices, `continue`
AnStructuredOther ==
    /\ UNCHANGED bsVars
    /\ UNCHANGED sideVars
    /\ caller = "analyze" /\ anPc = "structured"
    /\ pc = "yield" /\ logs # <<>>
    /\ Head(logs).kind \notin SwapKinds
    /\ logs' = Tail(logs)
    /\ yielded' = Append(yielded, Head(logs))
    /\ anHist' = [anHist EXCEPT !.late = @ \/ expired]
    /\ UNCHANGED <<caller, anPc, swaps, structuredQuirk>>
    /\ UNCHANGED <<fetcher, from_block, to_block, max_pages, step, start, end,
                   retries, pages, pc, backend, W, chain, progress, okWindows,
                   skipped, queries, winQueries, winOthers,
                   lastOutcome>>

\* structured path: handling an event raises (get_block_ts, a missing
\* field): `except Exception: pass`
AnStructuredEventError ==
    /\ UNCHANGED bsVars
    /\ UNCHANGED sideVars
    /\ caller = "analyze" /\ anPc = "structured"
    /\ pc = "yield" /\ logs # <<>>
    /\ NodeMayFail
    /\ yielded' = Append(yielded, Head(logs))
    /\ Close
    /\ anPc' = "check"
    /\ anHist' = [anHist EXCEPT !.structErr = TRUE]
    /\ UNCHANGED <<caller, swaps, structuredQuirk>>
    /\ UNCHANGED <<fetcher, from_block, to_block, max_pages, step, start, end,
                   retries, pages, logs, backend, W, chain, progress,
                   okWindows, skipped, queries, winQueries, winOthers,
                   lastOutcome>>

\* structured path: the generator is exhausted
AnStructuredEnd ==
    /\ UNCHANGED bsVars
    /\ UNCHANGED sideVars
    /\ caller = "analyze" /\ anPc = "structured"
    /\ pc = "done"
    /\ anPc' = "check"
    /\ UNCHANGED <<caller, swaps, structuredQuirk, anHist>>
    /\ UNCHANGED fetchVars

\* `if not swaps:` holds: fetch_token_exchange_raw is called on the range
AnFallbackToRaw ==
    /\ UNCHANGED bsVars
    /\ UNCHANGED sideVars
    /\ caller = "analyze" /\ anPc = "check"
    /\ NeedsRaw(swaps)
    /\ anPc' = "raw"
    /\ anHist' = [anHist EXCEPT !.rawRan = TRUE]
    /\ fetcher' = "fetch_token_exchange_raw"
    /\ step' = AnalyzeStep
    /\ max_pages' = AnalyzeMaxPages
    /\ start' = from_block
    /\ end' = from_block
    /\ retries' = 0
    /\ pages' = 0
    /\ logs' = <<>>
    /\ pc' = "loop"
    /\ yielded' = <<>>
    /\ progress' = <<>>
    /\ okWindows' = <<>>
    /\ skipped' = <<>>
    /\ queries' = 0
    /\ winQueries' = 0
    /\ winOthers' = 0
    /\ lastOutcome' = "none"
    /\ UNCHANGED <<from_block, to_block, backend, W, chain>>
    /\ UNCHANGED <<caller, swaps, structuredQuirk>>

\* `if not swaps:` fails: straight to the DataFrame
AnNoFallback ==
    /\ UNCHANGED bsVars
    /\ UNCHANGED sideVars
    /\ caller = "analyze" /\ anPc = "check"
    /\ ~NeedsRaw(swaps)
    /\ anPc' = "sort"
    /\ UNCHANGED <<caller, swaps, structuredQuirk, anHist>>
    /\ UNCHANGED fetchVars

\* raw path: a log with indices (0,1) or (1,0) is decoded and appended
AnRawSwap ==
    /\ UNCHANGED bsVars
    /\ UNCHANGED sideVars
    /\ caller = "analyze" /\ anPc = "raw"
    /\ pc = "yield" /\ logs # <<>>
    /\ Head(logs).kind \in SwapKinds
    /\ swaps' = Append(swaps, SwapRecord(Head(logs), "raw"))
    /\ logs' = Tail(logs)
    /\ yielded' = Append(yielded, Head(logs))
    /\ anHist' = [anHist EXCEPT !.late = @ \/ expired]
    /\ UNCHANGED <<caller, anPc, structuredQuirk>>
    /\ UNCHANGED <<fetcher, from_block, to_block, max_pages, step, start, end,
                   retries, pages, pc, backend, W, chain, progress, okWindows,
                   skipped, queries, winQueries, winOthers,
                   lastOutcome>>

\* raw path: other indices, `continue`
AnRawOther ==
    /\ UNCHANGED bsVars
    /\ UNCHANGED sideVars
    /\ caller = "analyze" /\ anPc = "raw"
    /\ pc = "yield" /\ logs # <<>>
    /\ Head(logs).kind \notin SwapKinds
    /\ logs' = Tail(logs)
    /\ yielded' = Append(yielded, Head(logs))
    /\ anHist' = [anHist EXCEPT !.late = @ \/ expired]
    /\ UNCHANGED <<caller, anPc, swaps, structuredQuirk>>
    /\ UNCHANGED <<fetcher, from_block, to_block, max_pages, step, start, end,
                   retries, pages, pc, backend, W, chain, progress, okWindows,
                   skipped, queries, winQueries, winOthers,
                   lastOutcome>>

\* raw path: handling a log raises (get_block_ts, abi_decode); nothing
\* catches it
AnRawEventError ==
    /\ UNCHANGED bsVars
    /\ UNCHANGED sideVars
    /\ caller = "analyze" /\ anPc = "raw"
    /\ pc = "yield" /\ logs # <<>>
    /\ NodeMayFail
    /\ yielded' = Append(yielded, Head(logs))
    /\ Close
    /\ anPc' = "raised"
    /\ anHist' = [anHist EXCEPT !.error = "event"]
    /\ UNCHANGED <<caller, swaps, structuredQuirk>>
    /\ UNCHANGED <<fetcher, from_block, to_block, max_pages, step, start, end,
                   retries, pages, logs, backend, W, chain, progress,
                   okWindows, skipped, queries, winQueries, winOthers,
                   lastOutcome>>

\* raw path: the generator is exhausted
AnRawEnd ==
    /\ UNCHANGED bsVars
    /\ UNCHANGED sideVars
    /\ caller = "analyze" /\ anPc = "raw"
    /\ pc = "done"
    /\ anPc' = "sort"
    /\ UNCHANGED <<caller, swaps, structuredQuirk, anHist>>
    /\ UNCHANGED fetchVars

\* pd.DataFrame(swaps).sort_values('time'): a frame made from an empty list
\* has no column 'time' and the sort raises KeyError
AnReturn ==
    /\ UNCHANGED bsVars
    /\ UNCHANGED sideVars
    /\ caller = "analyze" /\ anPc = "sort"
    /\ IF swaps = <<>>
       THEN /\ anPc' = "raised"
            /\ anHist' = [anHist EXCEPT !.error = "KeyError"]
            /\ UNCHANGED swaps
       ELSE /\ anPc' = "returned"
            /\ swaps' = SortByBlock(swaps)
            /\ UNCHANGED anHist
    /\ UNCHANGED <<caller, structuredQuirk>>
    /\ UNCHANGED fetchVars

\* time passes: from now on time.time() - start_time exceeds timeout_s
AnClockExpires ==
    /\ UNCHANGED fetchVars
    /\ UNCHANGED anVars
    /\ UNCHANGED bsVars
    /\ UNCHANGED <<rsVars, roleVars, flowVars, cacheVars>>
    /\ caller = "analyze"
    /\ anPc \in {"structured", "check", "raw", "sort"}
    /\ ~expired
    /\ expired' = TRUE
    /\ UNCHANGED cbRaises

\* the ranges, nodes and chains of the analysed calls: a two-block range
\* on any node, and a range of three initial windows on a node that answers
\* or refuses by window width
AnalyzeSmall ==
    /\ from_block = 3 /\ to_block = 4
    /\ \/ backend \in {"any", "ok"} /\ W = 0
       \/ backend = "limit" /\ W = 1
    /\ \E k3, k4 \in LogKinds \cup {"none"} :
          chain = LogAt(3, k3) \o LogAt(4, k4)

AnalyzeLarge ==
    /\ from_block = 1000 /\ to_block = 2000
    /\ \/ backend \in {"ok", "flaky"} /\ W = 0
       \/ backend = "limit" /\ W \in {30, 37}
    /\ \E k1, k2 \in LogKinds \cup {"none"} :
          chain = LogAt(1010, k1) \o LogAt(1600, k2)

InitAnalyze ==
    /\ AnalyzeSmall \/ AnalyzeLarge
    /\ fetcher = "fetch_event_logs_adaptive"
    /\ step = AnalyzeStep
    /\ max_pages = AnalyzeMaxPages
    /\ start = from_block
    /\ end = from_block
    /\ retries = 0
    /\ pages = 0
    /\ logs = <<>>
    /\ pc = "loop"
    /\ yielded = <<>>
    /\ progress = <<>>
    /\ okWindows = <<>>
    /\ skipped = <<>>
    /\ queries = 0
    /\ winQueries = 0
    /\ winOthers = 0
    /\ lastOutcome = "none"
    /\ caller = "analyze"
    /\ anPc = "structured"
    /\ swaps = <<>>
    /\ structuredQuirk \in BOOLEAN
    /\ anHist = NoHistory
    /\ BsIdle
    /\ SideIdle

NextAnalyze ==
    \/ LoopEnter
    \/ LoopExit
    \/ QueryOk
    \/ AdaptiveComplete
    \/ AdaptiveCapacityError
    \/ AdaptiveOtherError
    \/ AnStructuredSwap
    \/ AnStructuredOther
    \/ AnStructuredEventError
    \/ AnStructuredEnd
    \/ AnFallbackToRaw
    \/ AnNoFallback
    \/ AnRawSwap
    \/ AnRawOther
    \/ AnRawEventError
    \/ AnRawEnd
    \/ AnReturn
    \/ AnClockExpires

SpecAnalyze == InitAnalyze /\ [][NextAnalyze]_vars

---------------------------------------------------------------------------
(* block_at_timestamp: the binary search of both files.  The node's        *)
(* get_block(n).timestamp is the function oracle.                          *)

\* widest search interval upper - lower
MaxSpan == 4
\* largest block timestamp
MaxTs == 3

\* start hints of the modelled calls
LowerBlocks == {5}

\* the non-decreasing timestamp functions on lo_ .. hi_
Oracles(lo_, hi_) ==
    {f \in [lo_ .. hi_ -> 1 .. MaxTs] :
        \A b \in lo_ .. hi_ - 1 : f[b] <= f[b + 1]}

\* mid = (lo + hi) // 2
Mid(l, h) == (l + h) \div 2

\* faulty variant: <= instead of <
IsBeforeOrAt(tmid, ts) == tmid <= ts

\* `get_block(mid).timestamp < ts`
IsBefore(tmid, ts) == tmid < ts

\* `while lo < hi:` entered, timestamp of mid below ts: lo = mid + 1
BsGoRight ==
    /\ UNCHANGED fetchVars
    /\ UNCHANGED anVars
    /\ UNCHANGED sideVars
    /\ bsPc = "loop"
    /\ lo < hi
    /\ IsBefore(oracle[Mid(lo, hi)], target)
    /\ lo' = Mid(lo, hi) + 1
    /\ probes' = Append(probes, Mid(lo, hi))
    /\ UNCHANGED <<impl, lower, upper, target, oracle, hi, bsPc>>

\* `while lo < hi:` entered, timestamp of mid not below ts: hi = mid
BsGoLeft ==
    /\ UNCHANGED fetchVars
    /\ UNCHANGED anVars
    /\ UNCHANGED sideVars
    /\ bsPc = "loop"
    /\ lo < hi
    /\ ~IsBefore(oracle[Mid(lo, hi)], target)
    /\ hi' = Mid(lo, hi)
    /\ probes' = Append(probes, Mid(lo, hi))
    /\ UNCHANGED <<impl, lower, upper, target, oracle, lo, bsPc>>

\* `while lo < hi:` fails: return lo
BsReturn ==
    /\ UNCHANGED fetchVars
    /\ UNCHANGED anVars
    /\ UNCHANGED sideVars
    /\ bsPc = "loop"
    /\ lo >= hi
    /\ bsPc' = "done"
    /\ UNCHANGED <<impl, lower, upper, target, oracle, lo, hi, probes>>

FetchIdle ==
    /\ fetcher = "none"
    /\ from_block = 0
    /\ to_block = 0
    /\ max_pages = 0
    /\ step = 0
    /\ start = 0
    /\ end = 0
    /\ retries = 0
    /\ pages = 0
    /\ logs = <<>>
    /\ pc = "idle"
    /\ backend = "ok"
    /\ W = 0
    /\ chain = <<>>
    /\ yielded = <<>>
    /\ progress = <<>>
    /\ okWindows = <<>>
    /\ skipped = <<>>
    /\ queries = 0
    /\ winQueries = 0
    /\ winOthers = 0
    /\ lastOutcome = "none"

InitLocate ==
    /\ impl \in {"curve_analyzer", "analysis_curve_pool"}
    /\ lower \in LowerBlocks
    /\ upper \in lower .. lower + MaxSpan
    /\ oracle \in Oracles(lower, upper)
    /\ target \in 0 .. MaxTs + 1
    /\ lo = lower
    /\ hi = upper
    /\ bsPc = "loop"
    /\ probes = <<>>
    /\ FetchIdle
    /\ AnIdle
    /\ SideIdle

NextLocate ==
    \/ BsGoRight
    \/ BsGoLeft
    \/ BsReturn

SpecLocate == InitLocate /\ [][NextLocate]_vars

\* the node answers every get_block call
FairSpecLocate == SpecLocate /\ WF_vars(NextLocate)

---------------------------------------------------------------------------
(* resolve_pool_from_input.  The input is the text left after strip and    *)
(* the URL parse: whether it starts with '0x', its length, whether it is   *)
(* hexadecimal and whether its letters already have the checksum case.     *)
(* An address is its 20 bytes (id) and the case of its text (cs).          *)

\* lengths of the modelled inputs: empty, 20 and 32 bytes without the
\* prefix, 20 bytes, 32 bytes
InputLengths == {0, 40, 42, 64, 66}

Inputs ==
    [has0x : BOOLEAN, len : InputLengths, hex : BOOLEAN, cs : BOOLEAN]

Address(id, cs) == [id |-> id, cs |-> cs]

\* stands for the answer of a call that raises
Fails == Address("fail", FALSE)
\* a receipt without `to` (a contract creation)
NoAddress == Address("none", FALSE)

\* Web3.to_checksum_address: same bytes, checksum case
ToChecksum(a) == [a EXCEPT !.cs = TRUE]

\* the address typed by the user
InputAddress == Address("input", ui.cs)

\* the logs of a receipt: emitting address, and whether topics[0] is the
\* TokenExchange topic
ReceiptLogs ==
    {<<>>,
     <<[address |-> Address("token", FALSE), swap |-> FALSE]>>,
     <<[address |-> Address("pool", FALSE), swap |-> TRUE]>>,
     <<[address |-> Address("token", FALSE), swap |-> FALSE],
       [address |-> Address("pool", FALSE), swap |-> TRUE]>>,
     <<[address |-> Address("pool", FALSE), swap |-> TRUE],
       [address |-> Address("pool2", FALSE), swap |-> TRUE]>>}

\* what the chain answers to the resolver's calls:
\*   probe     coins(0) on the input address: "ok" or "fail"
\*   minter    minter() on the input address: an address or Fails
\*   provider  get_registry() on the address provider: "ok" or "fail"
\*   registry  get_pool_from_lp_token(input): an address (maybe zero) or Fails
\*   receipt   get_transaction_receipt(input): found or not, logs and `to`
Nodes ==
    [probe    : {"ok", "fail"},
     minter   : {Fails, Address("minted", FALSE), Address("zero", FALSE)},
     provider : {"ok", "fail"},
     registry : {Fails, Address("zero", FALSE), Address("registered", FALSE)},
     receipt  : {[found |-> FALSE, logs |-> <<>>, to |-> NoAddress]} \cup
                [found : {TRUE}, logs : ReceiptLogs,
                 to : {NoAddress, Address("callee", FALSE)}]]

IsAddress20 == ui.has0x /\ ui.len = 42
IsTxHash32 == ui.has0x /\ ui.len = 66

Returned(a) == [kind |-> "returned", address |-> a]
Raised(e, line) == [kind |-> "raised", error |-> e, line |-> line]

\* faulty variant: the registry is asked before minter()
AfterProbeFailsRegistry == "registry"

\* the path tried when coins(0) raises: the LP-token minter()
AfterProbeFails == "minter"

\* faulty variant: the zero address counts as a pool
RegistryHitAny(a) == TRUE

\* `if val != 0:` on the registry's answer
RegistryHit(a) == a.id # "zero"

\* the first log whose topics[0] is the TokenExchange topic, <<>> if none
RECURSIVE FirstSwapLog(_)
FirstSwapLog(ls) ==
    IF ls = <<>> THEN <<>>
    ELSE IF Head(ls).swap THEN <<Head(ls)>>
    ELSE FirstSwapLog(Tail(ls))

RsFrame ==
    /\ UNCHANGED fetchVars
    /\ UNCHANGED anVars
    /\ UNCHANGED bsVars
    /\ UNCHANGED <<envVars, roleVars, flowVars, cacheVars>>
    /\ UNCHANGED <<ui, node>>

\* 20-byte input that is not hexadecimal: to_checksum_address raises
RsBadAddress ==
    /\ RsFrame
    /\ rsPc = "start"
    /\ IsAddress20 /\ ~ui.hex
    /\ rsResult' = Raised("ValueError", 111)
    /\ rsPc' = "done"
    /\ UNCHANGED rsCalls

\* 20-byte input: addr = to_checksum_address(ui), on to the probe
RsToProbe ==
    /\ RsFrame
    /\ rsPc = "start"
    /\ IsAddress20 /\ ui.hex
    /\ rsPc' = "probe"
    /\ UNCHANGED <<rsCalls, rsResult>>

\* 32-byte input: on to the receipt
RsToReceipt ==
    /\ RsFrame
    /\ rsPc = "start"
    /\ ~IsAddress20 /\ IsTxHash32
    /\ rsPc' = "receipt"
    /\ UNCHANGED <<rsCalls, rsResult>>

\* any other input: the final raise
RsReject ==
    /\ RsFrame
    /\ rsPc = "start"
    /\ ~IsAddress20 /\ ~IsTxHash32
    /\ rsResult' = Raised("ValueError", 157)
    /\ rsPc' = "done"
    /\ UNCHANGED rsCalls

\* coins(0).call(): return addr, or fall into the except branch
RsProbe ==
    /\ RsFrame
    /\ rsPc = "probe"
    /\ rsCalls' = Append(rsCalls, "coins")
    /\ IF node.probe = "ok"
       THEN rsResult' = Returned(ToChecksum(InputAddress)) /\ rsPc' = "done"
       ELSE rsPc' = AfterProbeFails /\ UNCHANGED rsResult

\* minter().call(): return its checksummed answer, or fall into the except
\* branch
RsMinter ==
    /\ RsFrame
    /\ rsPc = "minter"
    /\ rsCalls' = Append(rsCalls, "minter")
    /\ IF node.minter # Fails
       THEN rsResult' = Returned(ToChecksum(node.minter)) /\ rsPc' = "done"
       ELSE rsPc' = "registry" /\ UNCHANGED rsResult

\* get_registry() then get_pool_from_lp_token(addr): return a non-zero
\* answer; a failure of either call is passed over; then the raise of
\* line 148
RsRegistry ==
    /\ RsFrame
    /\ rsPc = "registry"
    /\ rsCalls' = rsCalls \o (IF node.provider = "ok"
                              THEN <<"get_registry", "get_pool_from_lp_token">>
                              ELSE <<"get_registry">>)
    /\ IF /\ node.provider = "ok"
          /\ node.registry # Fails
          /\ RegistryHit(node.registry)
       THEN rsResult' = Returned(ToChecksum(node.registry))
       ELSE rsResult' = Raised("ValueError", 148)
    /\ rsPc' = "done"

\* get_transaction_receipt(ui): the address of the first TokenExchange
\* log, else the receipt's `to`, else the final raise; a failure of the call
\* itself is not caught
RsReceipt ==
    /\ RsFrame
    /\ rsPc = "receipt"
    /\ rsCalls' = Append(rsCalls, "get_transaction_receipt")
    /\ rsResult' =
          IF ~node.receipt.found THEN Raised("NodeError", 150)
          ELSE IF FirstSwapLog(node.receipt.logs) # <<>>
          THEN Returned(ToChecksum(FirstSwapLog(node.receipt.logs)[1].address))
          ELSE IF node.receipt.to # NoAddress
          THEN Returned(ToChecksum(node.receipt.to))
          ELSE Raised("ValueError", 157)
    /\ rsPc' = "done"

InitResolve ==
    /\ ui \in Inputs
    /\ node \in Nodes
    /\ rsPc = "start"
    /\ rsCalls = <<>>
    /\ rsResult = "none"
    /\ FetchIdle
    /\ AnIdle
    /\ BsIdle
    /\ EnvIdle
    /\ RoleIdle
    /\ FlowIdle
    /\ CacheIdle

NextResolve ==
    \/ RsBadAddress
    \/ RsToProbe
    \/ RsToReceipt
    \/ RsReject
    \/ RsProbe
    \/ RsMinter
    \/ RsRegistry
    \/ RsReceipt

SpecResolve == InitResolve /\ [][NextResolve]_vars

---------------------------------------------------------------------------
(* The asset-role heuristic of get_pool_meta and of the legacy script.     *)
(* A symbol is what symbol() gave: None, or a string, here the sequence of *)
(* its characters.                                                         *)

Chars(s) == [none |-> FALSE, text |-> s]
None == [none |-> TRUE, text |-> <<>>]

\* the symbols of the modelled pools
Symbols ==
    {None,
     Chars(<<>>),
     Chars(<<"T", "0">>),
     Chars(<<"T", "1">>),
     Chars(<<"U", "S", "D", "C">>),
     Chars(<<"d", "e", "U", "S", "D">>),
     Chars(<<"D", "E", "U", "S", "D">>),
     Chars(<<"s", "d", "e", "U", "S", "D">>),
     Chars(<<"D", "E", "U", "S">>),
     Chars(<<"f", "r", "x", "U", "S", "D">>),
     Chars(<<"f", "r", "x", "u", "s", "d">>),
     Chars(<<"s", "f", "r", "x", "U", "S", "D">>),
     Chars(<<"F", "R", "A", "X">>),
     Chars(<<"f", "r", "x", "U", "S", "D", "-", "d", "e", "U", "S", "D">>)}

\* `s or ''`
OrEmpty(s) == IF s.none \/ s.text = <<>> THEN <<>> ELSE s.text

UpperChar(c) ==
    CASE c = "d" -> "D"
      [] c = "e" -> "E"
      [] c = "u" -> "U"
      [] c = "s" -> "S"
      [] c = "f" -> "F"
      [] c = "r" -> "R"
      [] c = "x" -> "X"
      [] OTHER   -> c

\* str.upper()
Upper(t) == [i \in DOMAIN t |-> UpperChar(t[i])]

\* `needle in hay` on strings
Contains(needle, hay) ==
    \E i \in 1 .. Len(hay) - Len(needle) + 1 :
        SubSeq(hay, i, i + Len(needle) - 1) = needle

DEUSD == <<"D", "E", "U", "S", "D">>
FRXUSD == <<"F", "R", "X", "U", "S", "D">>

\* faulty variant: FRXUSD in symbol 0 is tested first
RolesFrxFirst(s0, s1) ==
    LET up == <<Upper(OrEmpty(s0)), Upper(OrEmpty(s1))>>
    IN  IF Contains(FRXUSD, up[1]) THEN <<1, 0>>
        ELSE IF Contains(DEUSD, up[1]) THEN <<0, 1>>
        ELSE IF Contains(DEUSD, up[2]) THEN <<1, 0>>
        ELSE IF Contains(FRXUSD, up[2]) THEN <<0, 1>>
        ELSE <<0, 1>>

\* get_pool_meta: (di, fi)
RolesAnalyzer(s0, s1) ==
    LET up == <<Upper(OrEmpty(s0)), Upper(OrEmpty(s1))>>
    IN  IF Contains(DEUSD, up[1]) THEN <<0, 1>>
        ELSE IF Contains(DEUSD, up[2]) THEN <<1, 0>>
        ELSE IF Contains(FRXUSD, up[1]) THEN <<1, 0>>
        ELSE IF Contains(FRXUSD, up[2]) THEN <<0, 1>>
        ELSE <<0, 1>>

\* analysis_curve_pool.py: (deusd_index, frx_index)
RolesLegacy(s0, s1) ==
    LET symbols == <<Upper(OrEmpty(s0)), Upper(OrEmpty(s1))>>
    IN  IF Contains(DEUSD, symbols[1]) THEN <<0, 1>>
        ELSE IF Contains(DEUSD, symbols[2]) THEN <<1, 0>>
        ELSE IF Contains(FRXUSD, symbols[1]) THEN <<1, 0>>
        ELSE IF Contains(FRXUSD, symbols[2]) THEN <<0, 1>>
        ELSE <<0, 1>>

RoleFrame ==
    /\ UNCHANGED fetchVars
    /\ UNCHANGED anVars
    /\ UNCHANGED bsVars
    /\ UNCHANGED <<envVars, rsVars, flowVars, cacheVars>>
    /\ UNCHANGED <<sym0, sym1>>

\* get_pool_meta decides the roles
RoleAnalyzer ==
    /\ RoleFrame
    /\ rolePc = "start"
    /\ roles.analyzer = <<>>
    /\ roles' = [roles EXCEPT !.analyzer = RolesAnalyzer(sym0, sym1)]
    /\ rolePc' = IF roles.legacy # <<>> THEN "done" ELSE "start"

\* the legacy script decides the roles
RoleLegacy ==
    /\ RoleFrame
    /\ rolePc = "start"
    /\ roles.legacy = <<>>
    /\ roles' = [roles EXCEPT !.legacy = RolesLegacy(sym0, sym1)]
    /\ rolePc' = IF roles.analyzer # <<>> THEN "done" ELSE "start"

InitRoles ==
    /\ sym0 \in Symbols
    /\ sym1 \in Symbols
    /\ roles = [analyzer |-> <<>>, legacy |-> <<>>]
    /\ rolePc = "start"
    /\ FetchIdle
    /\ AnIdle
    /\ BsIdle
    /\ EnvIdle
    /\ RsIdle
    /\ FlowIdle
    /\ CacheIdle

NextRoles ==
    \/ RoleAnalyzer
    \/ RoleLegacy

SpecRoles == InitRoles /\ [][NextRoles]_vars

---------------------------------------------------------------------------
(* The swap record: what analyze_swaps_last_days appends for an event and  *)
(* what handle_swap of the legacy script appends for it.  A number is the  *)
(* fraction num / den with den > 0; math.nan is the fraction 0 / 0.         *)

\* raw token amounts of the modelled events
Amounts == {0, 1, 3, 50}
\* decimals of the modelled tokens
Decimals == {0, 1, 2}

Events ==
    [sold_id : {0, 1}, bought_id : {0, 1},
     tokens_sold : Amounts, tokens_bought : Amounts]

Metas ==
    {m \in [dec0 : Decimals, dec1 : Decimals,
            deusd_index : {0, 1}, frx_index : {0, 1}] :
        m.deusd_index # m.frx_index}

RECURSIVE Pow10(_)
Pow10(n) == IF n = 0 THEN 1 ELSE 10 * Pow10(n - 1)

Frac(n, d) == [num |-> n, den |-> d]
NaN == Frac(0, 0)

\* dec_by_index[i] / decs[i]
DecOf(m, i) == IF i = 0 THEN m.dec0 ELSE m.dec1

\* amount / (10 ** decimals)
Normalise(amount, dec) == Frac(amount, Pow10(dec))

\* unary minus
Neg(x) == Frac(0 - x.num, x.den)

\* x / y for y > 0
Div(x, y) == Frac(x.num * y.den, x.den * y.num)

\* `x / y if y > 0 else math.nan`
DivOrNaN(x, y) == IF y.num > 0 THEN Div(x, y) ELSE NaN

NoRecord == [appended |-> FALSE]

\* analyze_swaps_last_days: the dict appended for an event, NoRecord when
\* the event is passed over
AnalyzerRecord(e, m) ==
    LET sold_norm == Normalise(e.tokens_sold, DecOf(m, e.sold_id))
        bought_norm == Normalise(e.tokens_bought, DecOf(m, e.bought_id))
        Dict(token0_flow, token1_flow, price_t0_in_t1) ==
            [appended |-> TRUE,
             token0_flow |-> token0_flow,
             token1_flow |-> token1_flow,
             price_token0_in_token1 |-> price_t0_in_t1,
             deusd_flow |-> token0_flow,
             frx_flow |-> token1_flow,
             price_deusd_in_frx |-> price_t0_in_t1]
    IN  IF e.sold_id = 0 /\ e.bought_id = 1
        THEN Dict(Neg(sold_norm), bought_norm, DivOrNaN(bought_norm, sold_norm))
        ELSE IF e.sold_id = 1 /\ e.bought_id = 0
        THEN Dict(bought_norm, Neg(sold_norm), DivOrNaN(sold_norm, bought_norm))
        ELSE NoRecord

\* handle_swap: the dict appended for an event, NoRecord on `return`
LegacyRecord(e, m) ==
    LET sold_norm == Normalise(e.tokens_sold, DecOf(m, e.sold_id))
        bought_norm == Normalise(e.tokens_bought, DecOf(m, e.bought_id))
        Dict(deusd_flow, frx_flow, price) ==
            [appended |-> TRUE,
             deusd_flow |-> deusd_flow,
             frx_flow |-> frx_flow,
             price_deusd_in_frx |-> price]
    IN  IF e.sold_id = m.deusd_index /\ e.bought_id = m.frx_index
        THEN Dict(Neg(sold_norm), bought_norm, DivOrNaN(bought_norm, sold_norm))
        ELSE IF e.sold_id = m.frx_index /\ e.bought_id = m.deusd_index
        THEN Dict(bought_norm, Neg(sold_norm), DivOrNaN(sold_norm, bought_norm))
        ELSE NoRecord

FlowFrame ==
    /\ UNCHANGED fetchVars
    /\ UNCHANGED anVars
    /\ UNCHANGED bsVars
    /\ UNCHANGED <<envVars, rsVars, roleVars, cacheVars>>
    /\ UNCHANGED <<ev, meta>>

\* analyze_swaps_last_days handles the event
FlowAnalyzer ==
    /\ FlowFrame
    /\ flowPc \in {"start", "legacy"}
    /\ rec' = AnalyzerRecord(ev, meta)
    /\ flowPc' = IF flowPc = "start" THEN "analyzer" ELSE "done"
    /\ UNCHANGED legacy

\* handle_swap handles the event
FlowLegacy ==
    /\ FlowFrame
    /\ flowPc \in {"start", "analyzer"}
    /\ legacy' = LegacyRecord(ev, meta)
    /\ flowPc' = IF flowPc = "start" THEN "legacy" ELSE "done"
    /\ UNCHANGED rec

InitFlows ==
    /\ ev \in Events
    /\ meta \in Metas
    /\ rec = NoRecord
    /\ legacy = NoRecord
    /\ flowPc = "start"
    /\ FetchIdle
    /\ AnIdle
    /\ BsIdle
    /\ EnvIdle
    /\ RsIdle
    /\ RoleIdle
    /\ CacheIdle

NextFlows ==
    \/ FlowAnalyzer
    \/ FlowLegacy

SpecFlows == InitFlows /\ [][NextFlows]_vars

-----------------------------------------------------------------------------
(* The block-timestamp cache of curve_analyzer.get_block_ts.  The dict is   *)
(* followed exactly for the blocks of Tracked; the entries of every other   *)
(* block are counted, so that the size threshold keeps its real value.      *)

CacheLimit == 20000
MaxBlockTs == 1

Tracked == {7}
BlockTimestamps == 0 .. MaxBlockTs

\* len(_blk_ts_cache)
CacheSize == Cardinality(DOMAIN cache) + cacheOthers

\* a clear test which tolerates one more entry
NeedsClearLate(n) == n > CacheLimit + 1

\* if len(_blk_ts_cache) > 20000
NeedsClear(n) == n > CacheLimit

\* _blk_ts_cache[blk] = ts on a dict which holds the entries of c
Store(c, blk, ts) ==
    [b \in (DOMAIN c) \cup {blk} |-> IF b = blk THEN ts ELSE c[b]]

\* ts = _blk_ts_cache.get(blk): `ts is None' holds for an absent key only
CacheMisses(blk) == blk \notin DOMAIN cache

Call(kind, calls, cleared) ==
    [kind |-> kind, calls |-> calls, cleared |-> cleared]

CacheFrame ==
    /\ UNCHANGED <<fetchVars, anVars, bsVars>>
    /\ UNCHANGED <<envVars, rsVars, roleVars, flowVars>>

\* get_block_ts(w3, blk), blk cached: the stored value is returned
CacheHit(blk) ==
    /\ ~CacheMisses(blk)
    /\ lastCall' = Call("hit", 0, FALSE)
    /\ UNCHANGED <<cache, cacheOthers, nodeSaid>>
    /\ CacheFrame

\* get_block_ts(w3, blk), blk absent: the node answers ts
CacheMiss(blk, ts) ==
    /\ CacheMisses(blk)
    /\ nodeSaid' = Store(nodeSaid, blk, ts)
    /\ IF NeedsClear(CacheSize)
       THEN /\ cache' = Store(<<>>, blk, ts)
            /\ cacheOthers' = 0
       ELSE /\ cache' = Store(cache, blk, ts)
            /\ cacheOthers' = cacheOthers
    /\ lastCall' = Call("miss", 1, NeedsClear(CacheSize))
    /\ CacheFrame

\* get_block_ts(w3, blk), blk absent: w3.eth.get_block raises
CacheMissFails(blk) ==
    /\ CacheMisses(blk)
    /\ lastCall' = Call("failed", 1, FALSE)
    /\ UNCHANGED <<cache, cacheOthers, nodeSaid>>
    /\ CacheFrame

\* get_block_ts on a cached block outside Tracked
OtherHit ==
    /\ cacheOthers > 0
    /\ lastCall' = Call("hit", 0, FALSE)
    /\ UNCHANGED <<cache, cacheOthers, nodeSaid>>
    /\ CacheFrame

\* get_block_ts on an absent block outside Tracked: the node answers
OtherMiss ==
    /\ IF NeedsClear(CacheSize)
       THEN /\ cache' = <<>>
            /\ cacheOthers' = 1
       ELSE /\ cache' = cache
            /\ cacheOthers' = cacheOthers + 1
    /\ lastCall' = Call("miss", 1, NeedsClear(CacheSize))
    /\ UNCHANGED nodeSaid
    /\ CacheFrame

\* get_block_ts on an absent block outside Tracked: get_block raises
OtherMissFails ==
    /\ lastCall' = Call("failed", 1, FALSE)
    /\ UNCHANGED <<cache, cacheOthers, nodeSaid>>
    /\ CacheFrame

InitCache ==
    /\ FetchIdle
    /\ AnIdle
    /\ BsIdle
    /\ EnvIdle
    /\ RsIdle
    /\ RoleIdle
    /\ FlowIdle
    /\ CacheIdle

NextCache ==
    \/ \E blk \in Tracked : CacheHit(blk)
    \/ \E blk \in Tracked, ts \in BlockTimestamps : CacheMiss(blk, ts)
    \/ \E blk \in Tracked : CacheMissFails(blk)
    \/ OtherHit
    \/ OtherMiss
    \/ OtherMissFails

SpecCache == InitCache /\ [][NextCache]_vars

---------------------------------------------------------------------------
(* Properties of the fetchers. *)

Blocks(w) == w[1] .. w[2]

\* the number of successful windows that hold block b
TimesFetched(b) ==
    Cardinality({i \in DOMAIN okWindows : b \in Blocks(okWindows[i])})

\* the successful windows are consecutive and their union is the range
IsPartition ==
    /\ okWindows # <<>>
    /\ okWindows[1][1] = from_block
    /\ okWindows[Len(okWindows)][2] = to_block
    /\ \A i \in DOMAIN okWindows : okWindows[i][1] <= okWindows[i][2]
    /\ \A i \in 1 .. Len(okWindows) - 1 :
          okWindows[i + 1][1] = okWindows[i][2] + 1

\* a sub-window is resolved (completed or skipped) by this step
Resolves == pc \in {"query", "yield"} /\ pc' \in {"loop", "done"}

\* C1: one call of fetch_event_logs_adaptive or fetch_token_exchange_raw,
\* whatever errors the node injects, issues at most 5 queries per
\* sub-window and at most 5 * (to_block - from_block + 1) in all, moves its
\* window start strictly forward with every resolved sub-window (and never
\* back), and terminates.
C1_AdaptiveTerminates ==
    /\ [](fetcher \in AdaptiveFetchers =>
            /\ winQueries <= 5
            /\ queries <= 5 * (to_block - from_block + 1))
    /\ [][(fetcher \in AdaptiveFetchers) =>
            (start' >= start /\ (Resolves => start' > start))]_vars
    /\ (fetcher \in AdaptiveFetchers => <>(pc = "done"))

\* C1 witness: an adaptive call that ended after skipping one sub-window on
\* its fifth failed query and completing another
C1_Witness ==
    /\ fetcher \in AdaptiveFetchers
    /\ pc = "done"
    /\ skipped # <<>>
    /\ okWindows # <<>>
    /\ queries >= 6

\* C2: against a node that refuses exactly the windows wider than W,
\* fetch_event_logs_adaptive ends with every block of the range in exactly
\* one successful window, nothing skipped, the entries of the whole range
\* yielded once each, and (W = 37, range [1000, 1099], step 1000) at most 30
\* queries.
C2_LimitNodeFullCoverage ==
    (/\ fetcher = "fetch_event_logs_adaptive"
     /\ backend = "limit"
     /\ pc = "done"
     /\ pages < max_pages)
    => /\ \A b \in from_block .. to_block : TimesFetched(b) = 1
       /\ skipped = <<>>
       /\ yielded = GetLogs(from_block, to_block)
       /\ (W = 37 => queries <= 30)

\* C3: when no query raises and max_pages is not reached,
\* fetch_event_logs_adaptive ends with consecutive windows whose union is
\* the range, the entries yielded equal one query over the range, and the
\* last progress value is 1.
C3_NoErrorCoverage ==
    (/\ fetcher = "fetch_event_logs_adaptive"
     /\ backend = "ok"
     /\ from_block <= to_block
     /\ pc = "done"
     /\ pages < max_pages)
    => /\ IsPartition
       /\ \A b \in from_block .. to_block : TimesFetched(b) = 1
       /\ yielded = GetLogs(from_block, to_block)
       /\ progress # <<>>
       /\ progress[Len(progress)].num = progress[Len(progress)].den

\* C3 witness: an error-free call that ended after at least two windows
C3_Witness ==
    /\ fetcher = "fetch_event_logs_adaptive"
    /\ backend = "ok"
    /\ pc = "done"
    /\ pages < max_pages
    /\ Len(okWindows) >= 2
    /\ Len(yielded) >= 2

\* C4: one call of fetch_raw_logs terminates (returns or raises), whatever
\* capacity errors the node returns.
C4_RawLogsTerminates ==
    fetcher = "fetch_raw_logs" => <>(pc \in {"done", "raised"})

\* C5: in all four fetchers the step is at least 1 and never increases.
C5_StepShrinksOnly ==
    /\ [](step >= 1)
    /\ [][step' <= step]_vars

\* C5 witness: fetch_event_logs completed a window after walking its step
\* ladder down to 10
C5_Witness ==
    /\ fetcher = "fetch_event_logs"
    /\ step = 10
    /\ okWindows # <<>>
    /\ pc = "loop"

\* C6: in the adaptive fetchers progress_cb is called once per completed
\* sub-window and never for a skipped one, with values in [0, 1] that never
\* decrease.
C6_ProgressPerCompletedWindow ==
    fetcher \in AdaptiveFetchers =>
       /\ Len(progress) = pages
       /\ Len(okWindows) = pages + (IF pc = "yield" THEN 1 ELSE 0)
       /\ \A i \in DOMAIN progress :
             /\ progress[i].den > 0
             /\ 0 <= progress[i].num
             /\ progress[i].num <= progress[i].den
       /\ \A i \in 1 .. Len(progress) - 1 :
             progress[i].num * progress[i + 1].den
                <= progress[i + 1].num * progress[i].den

\* C6 witness: two progress calls and a skipped sub-window in one call
C6_Witness ==
    /\ fetcher \in AdaptiveFetchers
    /\ Len(progress) >= 2
    /\ skipped # <<>>
    /\ progress[1].num < progress[2].num

\* C7: an adaptive fetcher queries at most max_pages sub-windows, completed
\* or skipped.
C7_MaxPagesBoundsSubWindows ==
    fetcher \in AdaptiveFetchers =>
       Len(okWindows) + Len(skipped) <= max_pages

\* C8: in fetch_event_logs and fetch_raw_logs the first error that is not a
\* capacity error ends the call at once: the start is not advanced, no
\* window is skipped for it, and nothing is queried afterwards.
C8_FailFastRaises ==
    /\ [][(fetcher \in FailFastFetchers /\ pc = "query"
            /\ lastOutcome' = "other")
          => (pc' = "raised" /\ start' = start /\ skipped' = skipped)]_vars
    /\ [][pc = "raised"
          => (pc' = "raised" /\ queries' = queries /\ start' = start)]_vars

\* C8 witness: a fail-fast call that raised after a completed window
C8_Witness ==
    /\ fetcher \in FailFastFetchers
    /\ pc = "raised"
    /\ lastOutcome = "other"
    /\ okWindows # <<>>
    /\ start <= to_block

\* the step after a capacity error at a step above 1: halved above 200,
\* then 50, then 10, then 1
Rung(st) ==
    CASE st > 200 -> st \div 2
      [] st > 50 /\ st <= 200 -> 50
      [] st > 10 /\ st <= 50 -> 10
      [] OTHER -> 1

\* a capacity error is being handled by fetch_event_logs
EventLogsCapacityStep ==
    fetcher = "fetch_event_logs" /\ pc = "query" /\ lastOutcome' = "capacity"

\* C14: in fetch_event_logs a capacity error at a step above 1 keeps the
\* start and lowers the step by one rung (halved above 200, then 50, 10, 1);
\* a window is advanced past without a successful query only at step 1,
\* it is then the single block start, just after a capacity error on it;
\* and on a node that accepts every window of width <= W (W >= 1) nothing
\* is skipped.
C14_SkipLastResort ==
    /\ [][(EventLogsCapacityStep /\ step > 1)
            => (start' = start /\ skipped' = skipped /\ step' = Rung(step))]_vars
    /\ [][(fetcher = "fetch_event_logs" /\ skipped' # skipped)
            => (/\ EventLogsCapacityStep
                /\ step = 1
                /\ end = start
                /\ skipped' = Append(skipped, <<start, start>>)
                /\ start' = start + 1)]_vars
    /\ []((fetcher = "fetch_event_logs" /\ backend = "limit" /\ W >= 1)
            => skipped = <<>>)

\* C14 witness: fetch_event_logs walked its ladder from 1000 down to 1,
\* gave up on one block and completed the next
C14_Witness ==
    /\ fetcher = "fetch_event_logs"
    /\ step = 1
    /\ skipped = <<<<3, 3>>>>
    /\ okWindows = <<<<4, 4>>>>
    /\ queries >= 8

\* an error that is not a capacity error is being handled by an adaptive
\* fetcher
AdaptiveOtherStep ==
    fetcher \in AdaptiveFetchers /\ pc = "query" /\ lastOutcome' = "other"

\* C15: in the adaptive fetchers the first error of a sub-window that is
\* not a capacity error leads to one more query with the same start and
\* end, and the sub-window is skipped for such an error only when it is the
\* second one on that sub-window, whatever capacity errors came before.
C15_OtherErrorRequeried ==
    /\ [][(AdaptiveOtherStep /\ winOthers = 0)
            => (/\ pc' = "query"
                /\ start' = start
                /\ end' = end
                /\ skipped' = skipped)]_vars
    /\ [][(AdaptiveOtherStep /\ skipped' # skipped) => winOthers' >= 2]_vars

\* C19: in one call of an adaptive fetcher, whatever errors the queries
\* raise and also when progress_cb raises, the windows of the successful
\* queries are pairwise disjoint and no entry is yielded twice.
C19_NoWindowTwice ==
    fetcher \in AdaptiveFetchers =>
       /\ \A i, j \in DOMAIN okWindows :
             i < j => Blocks(okWindows[i]) \cap Blocks(okWindows[j]) = {}
       /\ \A i, j \in DOMAIN yielded : i < j => yielded[i] # yielded[j]

---------------------------------------------------------------------------
(* Properties of analyze_swaps_last_days. *)

\* the number of records the structured path appended
StructuredCount ==
    Cardinality({i \in DOMAIN swaps : swaps[i].path = "structured"})

\* the logs of the range that give a swap record
MatchingLogs == SelectSeq(chain, LAMBDA l : l.kind \in SwapKinds)

\* MatchingLogs, each decoded once by the raw path
RawDecoded ==
    [i \in DOMAIN MatchingLogs |-> SwapRecord(MatchingLogs[i], "raw")]

\* the raw path runs exactly when the structured path gave no record, and
\* then only
FallbackIff ==
    /\ anHist.rawRan => StructuredCount = 0
    /\ (anPc \notin {"structured", "check"} /\ StructuredCount = 0)
          => anHist.rawRan
    /\ StructuredCount > 0 => fetcher = "fetch_event_logs_adaptive"

C16_StructuredErrorNotDropped ==
    (caller = "analyze" /\ anPc = "returned" /\ anHist.structErr)
       => anHist.rawRan

\* a get_logs call is issued by this step
QueryStep == winQueries' = winQueries + 1

\* C17: once the budget timeout_s is exceeded the call stops: after the
\* handling of an event has ended past the budget no entry is pulled and no
\* log query is issued on either path, and the raw path is not started
\* past the budget.
C17_BudgetHonoured ==
    /\ [][(caller = "analyze" /\ anHist.late)
            => (~QueryStep /\ yielded' = yielded)]_vars
    /\ [][(caller = "analyze" /\ expired /\ anPc = "check")
            => anPc' # "raw"]_vars

\* C18: a call in which neither path found a swap event (and no event
\* handling raised) returns normally with an empty table.
C18_EmptyWindowReturns ==
    (/\ caller = "analyze"
     /\ anPc \in {"returned", "raised"}
     /\ swaps = <<>>
     /\ ~anHist.structErr
     /\ anHist.error # "event")
       => anPc = "returned"

---------------------------------------------------------------------------
(* Properties of block_at_timestamp. *)

\* the blocks of the interval whose timestamp is at least the target
AtOrAfter == {b \in lower .. upper : oracle[b] >= target}

\* the smallest block of a non-empty set
Least(S) == CHOOSE b \in S : \A c \in S : b <= c

\* C10: on a non-decreasing oracle with lower <= upper, block_at_timestamp
\* terminates; it returns a block of [lower, upper]: the smallest one whose
\* timestamp is at least the target, lower when the target is below every
\* timestamp, upper when it is above every timestamp.
C10_LocatorCorrect ==
    /\ (bsPc = "loop" => <>(bsPc = "done"))
    /\ [](bsPc = "done" =>
            /\ lo \in lower .. upper
            /\ (AtOrAfter # {} => lo = Least(AtOrAfter))
            /\ ((\A b \in lower .. upper : target < oracle[b]) => lo = lower)
            /\ ((\A b \in lower .. upper : target > oracle[b]) => lo = upper))

\* C10 witness: a search that probed twice and returned a block strictly
\* inside the interval, preceded by a block with the same timestamp as
\* the target's predecessor
C10_Witness ==
    /\ bsPc = "done"
    /\ Len(probes) >= 2
    /\ lower < lo
    /\ lo < upper
    /\ oracle[lo] = target
    /\ oracle[lo - 1] < target

---------------------------------------------------------------------------
(* Properties of resolve_pool_from_input. *)

\* the node calls of the 20-byte branch, in the order of the code
ResolverOrder == <<"coins", "minter", "get_registry", "get_pool_from_lp_token">>

IsPrefix(s, t) == Len(s) <= Len(t) /\ SubSeq(t, 1, Len(s)) = s

\* the registry path gives no pool
RegistryFails ==
    \/ node.provider = "fail"
    \/ node.registry = Fails
    \/ node.registry.id = "zero"

\* C11: for a 20-byte input the paths are tried in the order coins(0),
\* minter(), registry, and the first that succeeds ends the call: when the
\* probe succeeds only coins(0) is called and the input address is returned;
\* when the probe fails and minter() succeeds the registry is not called
\* and minter's answer is returned; the registry's answer is returned only
\* after both failed.
C11_ResolverOrder ==
    (IsAddress20 /\ rsPc # "idle") =>
       /\ IsPrefix(rsCalls, ResolverOrder)
       /\ (rsPc = "done" /\ ui.hex /\ node.probe = "ok")
             => /\ rsCalls = <<"coins">>
                /\ rsResult = Returned(Address("input", TRUE))
       /\ (rsPc = "done" /\ ui.hex /\ node.probe = "fail" /\ node.minter # Fails)
             => /\ rsCalls = <<"coins", "minter">>
                /\ rsResult = Returned(Address(node.minter.id, TRUE))
       /\ (/\ rsPc = "done" /\ ui.hex /\ node.probe = "fail"
           /\ node.minter = Fails /\ ~RegistryFails)
             => /\ rsCalls = ResolverOrder
                /\ rsResult = Returned(Address(node.registry.id, TRUE))

\* C11 witness: the probe failed, minter() answered and the call returned
\* without asking a registry that would have answered too
C11_Witness ==
    /\ rsPc = "done"
    /\ IsAddress20
    /\ node.probe = "fail"
    /\ node.minter = Address("minted", FALSE)
    /\ ~RegistryFails
    /\ rsCalls = <<"coins", "minter">>
    /\ rsResult = Returned(Address("minted", TRUE))

\* C12: a finished call has returned a checksummed address or raised; it
\* raises ValueError for a 20-byte input whose probe, minter() and registry
\* lookup all fail (or whose registry answers the zero address), for a
\* 32-byte input whose receipt has no TokenExchange log and no `to`, and for
\* an input that is neither.
C12_ResolverNeverEmpty ==
    rsPc = "done" =>
       /\ rsResult.kind \in {"returned", "raised"}
       /\ rsResult.kind = "returned"
             => /\ rsResult.address.cs
                /\ rsResult.address.id \notin {"fail", "none"}
       /\ (/\ IsAddress20 /\ ui.hex /\ node.probe = "fail"
           /\ node.minter = Fails /\ RegistryFails)
             => rsResult.kind = "raised" /\ rsResult.error = "ValueError"
       /\ (/\ IsTxHash32 /\ node.receipt.found
           /\ \A i \in DOMAIN node.receipt.logs : ~node.receipt.logs[i].swap
           /\ node.receipt.to = NoAddress)
             => rsResult.kind = "raised" /\ rsResult.error = "ValueError"
       /\ (~IsAddress20 /\ ~IsTxHash32)
             => rsResult.kind = "raised" /\ rsResult.error = "ValueError"

\* C12 witness: all three paths were tried, the registry answered the zero
\* address, and the call raised
C12_Witness ==
    /\ rsPc = "done"
    /\ IsAddress20
    /\ rsCalls = ResolverOrder
    /\ node.registry = Address("zero", FALSE)
    /\ rsResult = Raised("ValueError", 148)

---------------------------------------------------------------------------
(* Properties of the asset-role heuristic. *)

\* the uppercased symbol holds the word
Mentions(word, s) == ~s.none /\ Contains(word, Upper(s.text))

\* the pair the priority order asks for
RolesByPriority ==
    CASE Mentions(DEUSD, sym0) -> <<0, 1>>
      [] ~Mentions(DEUSD, sym0) /\ Mentions(DEUSD, sym1) -> <<1, 0>>
      [] /\ ~Mentions(DEUSD, sym0) /\ ~Mentions(DEUSD, sym1)
         /\ Mentions(FRXUSD, sym0) -> <<1, 0>>
      [] /\ ~Mentions(DEUSD, sym0) /\ ~Mentions(DEUSD, sym1)
         /\ ~Mentions(FRXUSD, sym0) /\ Mentions(FRXUSD, sym1) -> <<0, 1>>
      [] OTHER -> <<0, 1>>

\* C13: for every pair of symbols each implementation of the heuristic
\* yields (0,1) or (1,0), the pair decided by the priority order DEUSD in
\* symbol 0, DEUSD in symbol 1, FRXUSD in symbol 0, FRXUSD in symbol 1,
\* default (0,1); and both implementations yield the same pair.
C13_RolesTotalAndEqual ==
    rolePc \in {"start", "done"} =>
       /\ roles.analyzer # <<>>
             => /\ roles.analyzer \in {<<0, 1>>, <<1, 0>>}
                /\ roles.analyzer = RolesByPriority
       /\ roles.legacy # <<>>
             => /\ roles.legacy \in {<<0, 1>>, <<1, 0>>}
                /\ roles.legacy = RolesByPriority
       /\ rolePc = "done" => roles.analyzer = roles.legacy

\* C13 witness: symbol 0 holds both words and DEUSD wins
C13_Witness ==
    /\ rolePc = "done"
    /\ Mentions(DEUSD, sym0)
    /\ Mentions(FRXUSD, sym0)
    /\ roles.analyzer = <<0, 1>>
    /\ roles.legacy = <<0, 1>>

---------------------------------------------------------------------------
(* Properties of the swap record. *)

\* the same number (nan agrees with nan only)
SameNumber(x, y) ==
    IF x.den = 0 \/ y.den = 0
    THEN x.den = 0 /\ y.den = 0
    ELSE x.num * y.den = y.num * x.den

\* the signed normalised amount of token i in the event: negative when it
\* is sold, positive when it is bought
SignedFlow(i) ==
    IF ev.sold_id = i
    THEN Neg(Normalise(ev.tokens_sold, DecOf(meta, i)))
    ELSE Normalise(ev.tokens_bought, DecOf(meta, i))

\* C20: for a swap between the two tokens and every PoolMeta, the fields
\* deusd_flow, frx_flow and price_deusd_in_frx of the analyzer's record
\* equal those of the legacy handle_swap: deusd_flow is the signed flow of
\* the token at meta.deusd_index and frx_flow that of the token at
\* meta.frx_index.
C20_CompatFieldsAgree ==
    (flowPc = "done" /\ ev.sold_id # ev.bought_id) =>
       /\ rec.appended /\ legacy.appended
       /\ SameNumber(rec.deusd_flow, legacy.deusd_flow)
       /\ SameNumber(rec.frx_flow, legacy.frx_flow)
       /\ SameNumber(rec.price_deusd_in_frx, legacy.price_deusd_in_frx)
       /\ SameNumber(rec.deusd_flow, SignedFlow(meta.deusd_index))
       /\ SameNumber(rec.frx_flow, SignedFlow(meta.frx_index))

-----------------------------------------------------------------------------
(* Properties of the block-timestamp cache. *)

\* one get_block_ts call: the dict shrinks only by the wholesale clear
CacheStep ==
    /\ lastCall'.kind = "hit" =>
           /\ lastCall'.calls = 0
           /\ cache' = cache
           /\ cacheOthers' = cacheOthers
    /\ lastCall'.kind \in {"miss", "failed"} => lastCall'.calls = 1
    /\ lastCall'.kind = "failed" => CacheSize' = CacheSize
    /\ lastCall'.kind = "miss" /\ ~lastCall'.cleared =>
           CacheSize' = CacheSize + 1
    /\ CacheSize' < CacheSize =>
           /\ lastCall'.kind = "miss"
           /\ lastCall'.cleared
    /\ lastCall'.cleared =>
           /\ CacheSize > CacheLimit
           /\ CacheSize' = 1

\* C21: after any sequence of get_block_ts calls the cache holds at most
\* CacheLimit + 1 entries, every cached value is the timestamp the node
\* returned for that block, a hit makes no node call and a miss exactly one,
\* and the cache is emptied only on the first miss after its size exceeds
\* CacheLimit, which leaves the newly fetched entry alone.
C21_CacheBoundedAndFaithful ==
    /\ [](CacheSize <= CacheLimit + 1)
    /\ [](\A blk \in DOMAIN cache :
              blk \in DOMAIN nodeSaid /\ cache[blk] = nodeSaid[blk])
    /\ [](lastCall.kind = "hit" => lastCall.calls = 0)
    /\ [](lastCall.kind \in {"miss", "failed"} => lastCall.calls = 1)
    /\ [][CacheStep]_vars

\* the full cache was cleared by a miss on a tracked block
C21_Witness ==
    /\ lastCall = Call("miss", 1, TRUE)
    /\ CacheSize = 1
    /\ DOMAIN cache = Tracked

=============================================================================
